---- MODULE Spec2Model ----
(***************************************************************************)
(* KIAUH multi-instance naming and single-to-multi conversion              *)
(* (kiauh/components/klipper/klipper_utils.py).                            *)
(*                                                                         *)
(* An instance suffix is a Python str; it is modelled as the sequence of   *)
(* its characters, so "" is << >> and "12" is << "1", "2" >>.              *)
(*                                                                         *)
(* The specifications share the variables of this module:                  *)
(*   SpecPure    the pure functions applied to bounded inputs              *)
(*   Spec        the naming procedure                                      *)
(*               init_name_scheme ; update_name_scheme ;                   *)
(*               handle_instance_naming                                    *)
(*   SpecConv    handle_to_multi_instance_conversion, call by call         *)
(*   SpecSys     the setup helpers of kiauh/utils/sys_utils.py             *)
(*   SpecSpinner the Spinner of kiauh/utils/spinner.py and its thread      *)
(*   SpecRemove  run_moonraker_removal of moonraker_remove.py              *)
(***************************************************************************)
EXTENDS Integers, Sequences, FiniteSets, TLC

VARIABLES
    \* --- SpecPure ---
    instance_list,        \* argument: the suffixes of a List[BaseInstance]
    result,               \* the last function applied and what it returned
    \* --- Spec (naming) ---
    klipper_instances,    \* suffixes of InstanceManager(Klipper).instances
    moonraker_instances,  \* suffixes of InstanceManager(Moonraker).instances
    install_count,        \* get_install_count(), an integer >= 1
    name_dict,            \* Dict[int, str], keys 0 .. n-1 in insertion order
    name_scheme,          \* the caller's NameScheme variable
    confirm_answer,       \* what the operator answered to "Assign custom names?"
    npc,                  \* position of the caller in the naming procedure
    \* --- SpecConv ---
    new_name,             \* argument of handle_to_multi_instance_conversion
    cpc,                  \* position inside the conversion
    units,                \* systemd state of the Klipper family
    current_instance,     \* im.current_instance (a suffix, or "none")
    old_data_dir,         \* local: the captured data directory path
    new_data_dir,         \* local: the new instance's data directory path
    fs,                   \* what lies at each data directory path
    oplog,                \* the calls that completed, in order
    logged,               \* Logger output, <<severity, message>> in order
    failed_at,            \* the call that raised, or "none"
    mr_suffix,            \* suffix of the single Moonraker instance
    \* --- SpecSys ---
    sys_call,             \* the sys_utils function called and what it met
    sys_result,           \* how the call ended, what it returned and logged
    \* --- SpecSpinner ---
    stop_event,           \* Spinner._stop_event: whether the Event is set
    threads,              \* every Thread object created, in creation order
    cur,                  \* Spinner._thread: an index into threads
    ctl,                  \* position of the controlling thread
    last_call,            \* how the controlling thread's last call ended
    console,              \* what stdout shows, and a tick that turns per write
    \* --- SpecRemove ---
    rm_call,              \* arguments and surroundings of run_moonraker_removal
    rm_result             \* how it ended and what it removed

pureVars == <<instance_list, result>>
nameVars == <<klipper_instances, moonraker_instances, install_count, name_dict,
              name_scheme, confirm_answer, npc>>
convVars == <<new_name, cpc, units, current_instance, old_data_dir,
              new_data_dir, fs, oplog, logged, failed_at, mr_suffix>>
sysVars == <<sys_call, sys_result>>
spinVars == <<stop_event, threads, cur, ctl, last_call, console>>
rmVars == <<rm_call, rm_result>>
restVars == <<sysVars, spinVars, rmVars>>
vars == <<pureVars, nameVars, convVars, restVars>>

-----------------------------------------------------------------------------
(* Bounds *)

MaxSuffixLen == 2     \* characters per suffix in SpecPure
MaxList == 3          \* instances per list in SpecPure
MaxCount == 3         \* largest install count
MaxKlipper == 2       \* Klipper instances installed before the run
MaxMoonraker == 3     \* Moonraker instances installed before the run
MaxDict == 2          \* positions of name_dict before update_name_scheme
MaxVersion == 3       \* largest major or minor version number
MaxThreads == 3       \* animation threads a Spinner starts in one run

-----------------------------------------------------------------------------
(* Characters and strings *)

\* The characters a suffix is made of: decimal digits and other characters.
\* Suffixes come from unit file names and from single-line operator input, so
\* no suffix holds a line terminator and "$" means the end of the string.
Digits == {"0", "1", "2", "3", "4", "5", "6", "7", "8", "9"}
Alphabet == {"1", "a"}

SeqsUpTo(S, n) == UNION {[1..m -> S] : m \in 0..n}

\* str.isdigit on one character, as "\d" matches it
IsDigitChar(c) == c \in Digits

DigitChar(d) ==
    CASE d = 0 -> "0" [] d = 1 -> "1" [] d = 2 -> "2" [] d = 3 -> "3"
      [] d = 4 -> "4" [] d = 5 -> "5" [] d = 6 -> "6" [] d = 7 -> "7"
      [] d = 8 -> "8" [] d = 9 -> "9"

\* str(n) for n >= 0: the decimal digits, most significant first
RECURSIVE IntToStr(_)
IntToStr(n) ==
    IF n < 10 THEN <<DigitChar(n)>>
    ELSE Append(IntToStr(n \div 10), DigitChar(n % 10))

\* NameScheme
SINGLE == "SINGLE"
INDEX == "INDEX"
CUSTOM == "CUSTOM"
NameScheme == {SINGLE, INDEX, CUSTOM}

-----------------------------------------------------------------------------
(* Pure functions of klipper_utils.py *)

\* the pattern without its end anchor: a digit at the start is enough
PatternMatchUnanchored(s) == Len(s) >= 1 /\ IsDigitChar(s[1])

\* re.compile("^\d+$").match(s): one or more digits and nothing else
PatternMatch(s) == Len(s) >= 1 /\ \A i \in 1..Len(s) : IsDigitChar(s[i])

\* the for loop of detect_name_scheme from position i on
RECURSIVE DetectFrom(_, _)
DetectFrom(l, i) ==
    IF i > Len(l) THEN INDEX
    ELSE IF ~PatternMatch(l[i]) THEN CUSTOM
    ELSE DetectFrom(l, i + 1)

detect_name_scheme(l) == DetectFrom(l, 1)

\* a multi install that does not look at the existing instances
check_is_multi_install_any(existing, count) == count > 1

check_is_multi_install(existing, count) == existing = <<>> /\ count > 1

check_is_single_to_multi_conversion(existing) ==
    Len(existing) = 1 /\ existing[1] = <<>>

\* get_confirm(..., allow_go_back=True): yes, no, or the go-back signal
ConfirmAnswers == {"yes", "no", "back"}
Truthy(ans) == ans = "yes"

\* whether init_name_scheme shows the dialog and asks the operator
Prompts(existing, count) ==
    check_is_multi_install(existing, count)
        \/ check_is_single_to_multi_conversion(existing)

\* init_name_scheme that asks the operator in every situation
init_name_scheme_always(existing, count, ans) ==
    IF Truthy(ans) THEN CUSTOM ELSE INDEX

\* init_name_scheme; ans is the operator's answer, read only when prompted
init_name_scheme(existing, count, ans) ==
    IF Prompts(existing, count)
    THEN IF Truthy(ans) THEN CUSTOM ELSE INDEX
    ELSE SINGLE

\* update_name_dict that skips position 0
update_name_dict_skip_first(d, instances) ==
    [k \in DOMAIN d \cup (0..(Len(instances) - 1)) |->
        IF k >= 1 /\ k < Len(instances) THEN instances[k + 1]
        ELSE IF k \in DOMAIN d THEN d[k] ELSE <<>>]

\* update_name_dict: name_dict[k] = v.suffix for k, v in enumerate(instances)
update_name_dict(d, instances) ==
    [k \in DOMAIN d \cup (0..(Len(instances) - 1)) |->
        IF k < Len(instances) THEN instances[k + 1] ELSE d[k]]

\* the mapping after update_name_scheme
UpdatedDict(d, kl, mr) ==
    IF Len(mr) > Len(kl) THEN update_name_dict(d, mr)
    ELSE IF Len(kl) > 1 THEN update_name_dict(d, kl)
    ELSE d

\* what update_name_scheme returns
update_name_scheme(scheme, d, kl, mr) ==
    IF Len(mr) > Len(kl) THEN detect_name_scheme(mr)
    ELSE IF Len(kl) > 1 THEN detect_name_scheme(kl)
    ELSE scheme

\* Klipper.blacklist(): the reserved names
Blacklist == {<<"m", "c", "u">>}

\* what the operator may type at "Enter name for instance k"
TypedNames == {<<"1">>, <<"a">>, <<"b">>, <<"c">>, <<"d">>, <<"m", "c", "u">>}

\* existing_names without the names already in the mapping
ExistingNamesBlacklistOnly(d) == Blacklist

\* existing_names of assign_custom_name
ExistingNames(d) == Blacklist \cup {d[n] : n \in DOMAIN d}

\* get_string_input(question, exclude): re-prompts until the answer is allowed
get_string_input(exclude) == {a \in TypedNames : a \notin exclude}

\* assign_custom_name: the mappings it can leave behind
assign_custom_name(key, d) ==
    {[d EXCEPT ![key] = a] : a \in get_string_input(ExistingNames(d))}

\* the for loop of handle_instance_naming from key k on; a dict iterates in
\* insertion order, which is 0, 1, 2, ... for this mapping
RECURSIVE NamingFrom(_, _, _)
NamingFrom(d, k, scheme) ==
    IF k \notin DOMAIN d THEN {d}
    ELSE IF d[k] = <<>> /\ scheme = INDEX
    THEN NamingFrom([d EXCEPT ![k] = IntToStr(k + 1)], k + 1, scheme)
    ELSE IF d[k] = <<>> /\ scheme = CUSTOM
    THEN UNION {NamingFrom(e, k + 1, scheme) : e \in assign_custom_name(k, d)}
    ELSE NamingFrom(d, k + 1, scheme)

\* handle_instance_naming: the mappings it can leave behind
handle_instance_naming(d, scheme) ==
    IF scheme = SINGLE THEN {d} ELSE NamingFrom(d, 0, scheme)

-----------------------------------------------------------------------------
(* The variables of a specification that is not running *)

SysIdle == sys_call = [fn |-> "idle"] /\ sys_result = [outcome |-> "idle"]

SpinIdle ==
    /\ stop_event = FALSE
    /\ threads = <<>>
    /\ cur = 0
    /\ ctl = "idle"
    /\ last_call = "idle"
    /\ console = <<>>

RmIdle == rm_call = [fn |-> "idle"] /\ rm_result = [outcome |-> "idle"]

RestIdle == SysIdle /\ SpinIdle /\ RmIdle

PureIdle == instance_list = <<>> /\ result = [op |-> "idle"]

NameIdle ==
    /\ klipper_instances = <<>>
    /\ moonraker_instances = <<>>
    /\ install_count = 1
    /\ name_dict = <<>>
    /\ name_scheme = "unset"
    /\ confirm_answer = "none"
    /\ npc = "idle"

ConvIdle ==
    /\ new_name = <<>>
    /\ cpc = "idle"
    /\ units = [installed |-> {}, enabled |-> {}, running |-> {}]
    /\ current_instance = "none"
    /\ old_data_dir = "unset"
    /\ new_data_dir = "unset"
    /\ fs = <<>>
    /\ oplog = <<>>
    /\ logged = <<>>
    /\ failed_at = "none"
    /\ mr_suffix = <<>>

-----------------------------------------------------------------------------
(* SpecPure: the pure functions applied to bounded inputs *)

Suffixes == SeqsUpTo(Alphabet, MaxSuffixLen)

InitPure ==
    /\ instance_list \in SeqsUpTo(Suffixes, MaxList)
    /\ result = [op |-> "none", count |-> 0, scheme |-> "none",
                 multi |-> FALSE, conv |-> FALSE]
    /\ NameIdle
    /\ ConvIdle
    /\ RestIdle

\* detect_name_scheme(instance_list)
ApplyDetect ==
    /\ result' = [op |-> "detect", count |-> 0,
                  scheme |-> detect_name_scheme(instance_list),
                  multi |-> FALSE, conv |-> FALSE]
    /\ UNCHANGED <<instance_list, nameVars, convVars, restVars>>

\* check_is_multi_install(instance_list, c) and
\* check_is_single_to_multi_conversion(instance_list)
ApplyChecks ==
    /\ \E c \in 1..MaxCount :
        result' = [op |-> "checks", count |-> c, scheme |-> "none",
                   multi |-> check_is_multi_install(instance_list, c),
                   conv |-> check_is_single_to_multi_conversion(instance_list)]
    /\ UNCHANGED <<instance_list, nameVars, convVars, restVars>>

NextPure == ApplyDetect \/ ApplyChecks

SpecPure == InitPure /\ [][NextPure]_vars

-----------------------------------------------------------------------------
(* Spec: the naming procedure of an install run *)

\* the suffixes the installed instances carry
NamePool == {<<>>, <<"1">>, <<"2">>, <<"3">>, <<"a">>}

\* an installed family: one unit file per suffix, so no suffix twice
Families(n) ==
    {l \in SeqsUpTo(NamePool, n) :
        \A i, j \in 1..Len(l) : i # j => l[i] # l[j]}

Init ==
    /\ klipper_instances \in Families(MaxKlipper)
    /\ moonraker_instances \in Families(MaxMoonraker)
    /\ install_count \in 1..MaxCount
    /\ name_dict \in {[k \in 0..(n - 1) |-> <<>>] : n \in 1..MaxDict}
    /\ name_scheme = "unset"
    /\ confirm_answer = "none"
    /\ npc = "init_name_scheme"
    /\ PureIdle
    /\ ConvIdle
    /\ RestIdle

\* name_scheme = init_name_scheme(kl_instances, install_count)
InitNameScheme ==
    /\ npc = "init_name_scheme"
    /\ \E ans \in ConfirmAnswers :
        /\ name_scheme' = init_name_scheme(klipper_instances, install_count, ans)
        /\ confirm_answer' =
              IF Prompts(klipper_instances, install_count) THEN ans ELSE "none"
    /\ npc' = "update_name_scheme"
    /\ UNCHANGED <<klipper_instances, moonraker_instances, install_count,
                   name_dict, pureVars, convVars, restVars>>

\* name_scheme = update_name_scheme(name_scheme, name_dict, kl, mr)
UpdateNameScheme ==
    /\ npc = "update_name_scheme"
    /\ name_scheme' = update_name_scheme(name_scheme, name_dict,
                          klipper_instances, moonraker_instances)
    /\ name_dict' = UpdatedDict(name_dict, klipper_instances, moonraker_instances)
    /\ npc' = "handle_instance_naming"
    /\ UNCHANGED <<klipper_instances, moonraker_instances, install_count,
                   confirm_answer, pureVars, convVars, restVars>>

\* handle_instance_naming(name_dict, name_scheme)
HandleInstanceNaming ==
    /\ npc = "handle_instance_naming"
    /\ name_dict' \in handle_instance_naming(name_dict, name_scheme)
    /\ npc' = "done"
    /\ UNCHANGED <<klipper_instances, moonraker_instances, install_count,
                   name_scheme, confirm_answer, pureVars, convVars, restVars>>

Next == InitNameScheme \/ UpdateNameScheme \/ HandleInstanceNaming

Spec == Init /\ [][Next]_vars

-----------------------------------------------------------------------------
(* SpecConv: handle_to_multi_instance_conversion, one call per step *)

\* the names a conversion is asked for: what naming left at a position
ConvNames == {<<"1">>, <<"2">>, <<"a">>, <<"b">>}

\* BaseInstance.data_dir: a path fixed by the suffix
DataDir(suffix) == <<"printer_data", suffix>>

\* what lies at a path: nothing, a regular file, or a directory (the old
\* instance's data, or other data)
IsDir(entry) == entry \in {"old_data", "other_data"}

\* InstanceManager: the service operations on one instance
stop_instance(u, s) == [u EXCEPT !.running = @ \ {s}]
disable_instance(u, s) == [u EXCEPT !.enabled = @ \ {s}]
delete_instance(u, s) == [u EXCEPT !.installed = @ \ {s}]
create_instance(u, s) == [u EXCEPT !.installed = @ \cup {s}]
enable_instance(u, s) == [u EXCEPT !.enabled = @ \cup {s}]
start_instance(u, s) == [u EXCEPT !.running = @ \cup {s}]

\* moonraker_to_multi_conversion(name): the suffix Moonraker ends up with
moonraker_to_multi_conversion(name) == name

\* Path.rename(target) on a directory: whether it can succeed, and the
\* filesystem it leaves behind when it does
CanRename(f, src, dst) == f[src] # "none" /\ f[dst] # "file"
Renamed(f, src, dst) ==
    IF src = dst THEN f ELSE [f EXCEPT ![dst] = f[src], ![src] = "none"]

InitConv ==
    /\ new_name \in ConvNames
    /\ cpc = "call"
    /\ \E en, run \in BOOLEAN :
        units = [installed |-> {<<>>},
                 enabled |-> IF en THEN {<<>>} ELSE {},
                 running |-> IF run THEN {<<>>} ELSE {}]
    /\ current_instance = "none"
    /\ old_data_dir = <<>>
    /\ new_data_dir = <<>>
    /\ \E old \in {"old_data", "none"}, new \in {"none", "file", "other_data"} :
        fs = [p \in {DataDir(n) : n \in ConvNames \cup {<<>>}} |->
                 IF p = DataDir(<<>>) THEN old
                 ELSE IF p = DataDir(new_name) THEN new
                 ELSE "none"]
    /\ oplog = <<>>
    /\ logged = <<>>
    /\ failed_at = "none"
    /\ mr_suffix = <<>>
    /\ PureIdle
    /\ NameIdle
    /\ RestIdle

\* an exception leaves klipper_to_multi_conversion and, with no handler in
\* handle_to_multi_instance_conversion either, leaves that too
Raise(op) ==
    /\ cpc' = "raised"
    /\ failed_at' = op
    /\ UNCHANGED <<units, current_instance, old_data_dir, new_data_dir, fs,
                   oplog, logged, mr_suffix>>

\* a service call on im.current_instance: it completes, or it raises
ServiceCall(here, op, after, next) ==
    /\ cpc = here
    /\ \/ /\ units' = after
          /\ oplog' = Append(oplog, op)
          /\ cpc' = next
          /\ UNCHANGED <<current_instance, old_data_dir, new_data_dir, fs,
                         logged, failed_at, mr_suffix>>
       \/ Raise(op)
    /\ UNCHANGED <<new_name, pureVars, nameVars, restVars>>

\* handle_to_multi_instance_conversion: status line, then the Klipper routine
HandleToMulti ==
    /\ cpc = "call"
    /\ logged' = Append(logged, <<"status", "converting">>)
    /\ cpc' = "kl_begin"
    /\ UNCHANGED <<new_name, units, current_instance, old_data_dir,
                   new_data_dir, fs, oplog, failed_at, mr_suffix,
                   pureVars, nameVars, restVars>>

\* klipper_to_multi_conversion up to the captured old data directory
KlBegin ==
    /\ cpc = "kl_begin"
    /\ logged' = Append(logged, <<"status", "convert_klipper">>)
    /\ current_instance' = <<>>
    /\ old_data_dir' = DataDir(<<>>)
    /\ cpc' = "kl_stop"
    /\ UNCHANGED <<new_name, units, new_data_dir, fs, oplog, failed_at,
                   mr_suffix, pureVars, nameVars, restVars>>

\* a conversion that forgets to disable the old service
KlStopThenDelete ==
    ServiceCall("kl_stop", "stop", stop_instance(units, current_instance),
                "kl_delete")

KlStop ==
    ServiceCall("kl_stop", "stop", stop_instance(units, current_instance),
                "kl_disable")

KlDisable ==
    ServiceCall("kl_disable", "disable",
                disable_instance(units, current_instance), "kl_delete")

KlDelete ==
    ServiceCall("kl_delete", "delete",
                delete_instance(units, current_instance), "kl_new")

\* im.current_instance = Klipper(suffix=new_name); new_data_dir = its data_dir
KlNew ==
    /\ cpc = "kl_new"
    /\ current_instance' = new_name
    /\ new_data_dir' = DataDir(new_name)
    /\ oplog' = Append(oplog, "new_instance")
    /\ cpc' = "kl_rename"
    /\ UNCHANGED <<new_name, units, old_data_dir, fs, logged, failed_at,
                   mr_suffix, pureVars, nameVars, restVars>>

\* a rename step that reports a failed rename and carries on
KlRenameSwallow ==
    /\ cpc = "kl_rename"
    /\ IF ~IsDir(fs[new_data_dir])
       THEN \/ /\ CanRename(fs, old_data_dir, new_data_dir)
               /\ fs' = Renamed(fs, old_data_dir, new_data_dir)
               /\ oplog' = Append(oplog, "rename")
               /\ logged' = Append(logged, <<"status", "rename">>)
               /\ cpc' = "kl_create"
               /\ UNCHANGED failed_at
            \/ /\ logged' = Append(Append(logged, <<"status", "rename">>),
                                   <<"error", "rename_failed">>)
               /\ failed_at' = "rename"
               /\ cpc' = "kl_create"
               /\ UNCHANGED <<fs, oplog>>
       ELSE /\ logged' = Append(Append(logged, <<"status", "rename">>),
                                <<"info", "skipped">>)
            /\ oplog' = Append(oplog, "skip_rename")
            /\ cpc' = "kl_create"
            /\ UNCHANGED <<fs, failed_at>>
    /\ UNCHANGED <<new_name, units, current_instance, old_data_dir,
                   new_data_dir, mr_suffix, pureVars, nameVars, restVars>>

\* a rename step that renames without looking at the destination
KlRenameUnchecked ==
    /\ cpc = "kl_rename"
    /\ \/ /\ fs[old_data_dir] # "none"
          /\ fs' = Renamed(fs, old_data_dir, new_data_dir)
          /\ oplog' = Append(oplog, "rename")
          /\ logged' = Append(logged, <<"status", "rename">>)
          /\ cpc' = "kl_create"
          /\ UNCHANGED failed_at
       \/ /\ logged' = Append(logged, <<"status", "rename">>)
          /\ cpc' = "raised"
          /\ failed_at' = "rename"
          /\ UNCHANGED <<fs, oplog>>
    /\ UNCHANGED <<new_name, units, current_instance, old_data_dir,
                   new_data_dir, mr_suffix, pureVars, nameVars, restVars>>

\* the rename step: rename unless the destination is a directory already
KlRename ==
    /\ cpc = "kl_rename"
    /\ IF ~IsDir(fs[new_data_dir])
       THEN \/ /\ CanRename(fs, old_data_dir, new_data_dir)
               /\ fs' = Renamed(fs, old_data_dir, new_data_dir)
               /\ oplog' = Append(oplog, "rename")
               /\ logged' = Append(logged, <<"status", "rename">>)
               /\ cpc' = "kl_create"
               /\ UNCHANGED failed_at
            \/ /\ logged' = Append(logged, <<"status", "rename">>)
               /\ cpc' = "raised"
               /\ failed_at' = "rename"
               /\ UNCHANGED <<fs, oplog>>
       ELSE /\ logged' = Append(Append(logged, <<"status", "rename">>),
                                <<"info", "skipped">>)
            /\ oplog' = Append(oplog, "skip_rename")
            /\ cpc' = "kl_create"
            /\ UNCHANGED <<fs, failed_at>>
    /\ UNCHANGED <<new_name, units, current_instance, old_data_dir,
                   new_data_dir, mr_suffix, pureVars, nameVars, restVars>>

KlCreate ==
    ServiceCall("kl_create", "create",
                create_instance(units, current_instance), "kl_enable")

KlEnable ==
    ServiceCall("kl_enable", "enable",
                enable_instance(units, current_instance), "kl_start")

KlStart ==
    ServiceCall("kl_start", "start",
                start_instance(units, current_instance), "mr_conv")

\* a conversion that returns without converting Moonraker
MrConvSkipped ==
    /\ cpc = "mr_conv"
    /\ cpc' = "returned"
    /\ UNCHANGED <<new_name, units, current_instance, old_data_dir,
                   new_data_dir, fs, oplog, logged, failed_at, mr_suffix,
                   pureVars, nameVars, restVars>>

\* moonraker_to_multi_conversion(new_name), then the return
MrConv ==
    /\ cpc = "mr_conv"
    /\ \/ /\ mr_suffix' = moonraker_to_multi_conversion(new_name)
          /\ oplog' = Append(oplog, "mr_conv")
          /\ cpc' = "returned"
          /\ UNCHANGED <<units, current_instance, old_data_dir, new_data_dir,
                         fs, logged, failed_at>>
       \/ Raise("mr_conv")
    /\ UNCHANGED <<new_name, pureVars, nameVars, restVars>>

NextConv ==
    \/ HandleToMulti
    \/ KlBegin
    \/ KlStop
    \/ KlDisable
    \/ KlDelete
    \/ KlNew
    \/ KlRename
    \/ KlCreate
    \/ KlEnable
    \/ KlStart
    \/ MrConv

SpecConv == InitConv /\ [][NextConv]_vars

-----------------------------------------------------------------------------
(* Properties of the pure functions (SpecPure) *)

OnlyDigits(s) == Len(s) >= 1 /\ \A i \in 1..Len(s) : s[i] \in Digits
HasNonDigit(s) == \E i \in 1..Len(s) : s[i] \notin Digits

\* C1: detect_name_scheme returns SINGLE for the empty family and for the
\* family of exactly one instance with the empty suffix.
C1_SingleForEmptyOrUnsuffixed ==
    (result.op = "detect" /\ instance_list \in {<<>>, << <<>> >>})
        => result.scheme = SINGLE

\* C2: for a non-empty list, detect_name_scheme returns INDEX if every suffix
\* is one or more digits, and CUSTOM if some suffix holds a non-digit
\* character, at whatever position that suffix stands.
C2_IndexOrCustom ==
    (result.op = "detect" /\ Len(instance_list) >= 1) =>
        /\ (\A i \in 1..Len(instance_list) : OnlyDigits(instance_list[i]))
              => result.scheme = INDEX
        /\ (\E i \in 1..Len(instance_list) : HasNonDigit(instance_list[i]))
              => result.scheme = CUSTOM

\* two all-digit suffixes, then one that starts with a digit and goes on
\* with another character: CUSTOM
C2_Witness ==
    /\ result.op = "detect"
    /\ Len(instance_list) = 3
    /\ HasNonDigit(instance_list[3])
    /\ OnlyDigits(instance_list[1])
    /\ OnlyDigits(instance_list[2])
    /\ Len(instance_list[3]) = 2
    /\ instance_list[3][1] \in Digits
    /\ result.scheme = CUSTOM

\* C9: with one unsuffixed instance the conversion predicate is true and the
\* multi-install predicate false for every install count; with no instance
\* the multi-install predicate is true exactly for a count above 1 and the
\* conversion predicate is false; the two are never true together.
C9_DecisionTable ==
    result.op = "checks" =>
        /\ instance_list = << <<>> >> => (result.conv /\ ~result.multi)
        /\ instance_list = <<>> =>
              ((result.multi <=> result.count > 1) /\ ~result.conv)
        /\ ~(result.conv /\ result.multi)

\* one unsuffixed instance and a request for three more
C9_Witness ==
    /\ result.op = "checks"
    /\ instance_list = << <<>> >>
    /\ result.count = 3
    /\ result.conv
    /\ ~result.multi

-----------------------------------------------------------------------------
(* Properties of the naming procedure (Spec) *)

AfterUpdate == npc \in {"handle_instance_naming", "done"}

\* C3: when Moonraker has more instances than Klipper, update_name_scheme
\* returns the scheme detected from the Moonraker instances and maps every
\* position below their number to the suffix of the Moonraker instance there,
\* whatever the operator chose.
C3_AdoptMoonraker ==
    (npc = "handle_instance_naming"
        /\ Len(moonraker_instances) > Len(klipper_instances)) =>
        /\ name_scheme = detect_name_scheme(moonraker_instances)
        /\ moonraker_instances = << <<"1">>, <<"2">>, <<"3">> >>
              => name_scheme = INDEX
        /\ \A k \in 0..(Len(moonraker_instances) - 1) :
              k \in DOMAIN name_dict /\ name_dict[k] = moonraker_instances[k + 1]

\* Moonraker ["1","2","3"], no Klipper, the operator asked for custom names
C3_Witness ==
    /\ npc = "handle_instance_naming"
    /\ moonraker_instances = << <<"1">>, <<"2">>, <<"3">> >>
    /\ klipper_instances = <<>>
    /\ confirm_answer = "yes"
    /\ name_scheme = INDEX
    /\ name_dict = [k \in 0..2 |-> <<DigitChar(k + 1)>>]

\* C4: when Moonraker has more instances than Klipper, after
\* update_name_scheme and handle_instance_naming the name at every position
\* below the number of Moonraker instances is the suffix of the Moonraker
\* instance at that position, an unsuffixed one included.
C4_AlignedByPosition ==
    (npc = "done" /\ Len(moonraker_instances) > Len(klipper_instances)) =>
        \A k \in 0..(Len(moonraker_instances) - 1) :
            name_dict[k] = moonraker_instances[k + 1]

\* C10: init_name_scheme returns SINGLE, and asks nothing, exactly when the
\* run is neither a first multi install nor a conversion; otherwise it
\* returns CUSTOM if the operator confirms and INDEX if not; and
\* handle_instance_naming with SINGLE leaves the mapping as it was.
FirstMultiInstall == klipper_instances = <<>> /\ install_count > 1
ConversionFromSingle == klipper_instances = << <<>> >>

C10_SingleMeansNoNaming ==
    [][ /\ npc = "init_name_scheme" =>
            /\ (name_scheme' = SINGLE)
                  <=> ~(FirstMultiInstall \/ ConversionFromSingle)
            /\ (confirm_answer' = "none")
                  <=> ~(FirstMultiInstall \/ ConversionFromSingle)
            /\ (FirstMultiInstall \/ ConversionFromSingle) =>
                  name_scheme' = (IF confirm_answer' = "yes" THEN CUSTOM ELSE INDEX)
        /\ (npc = "handle_instance_naming" /\ name_scheme = SINGLE) =>
              name_dict' = name_dict
      ]_vars

\* a plain single install: SINGLE, no prompt, naming done, mapping untouched
C10_Witness ==
    /\ npc = "done"
    /\ name_scheme = SINGLE
    /\ confirm_answer = "none"
    /\ klipper_instances = <<>>
    /\ install_count = 1
    /\ \A k \in DOMAIN name_dict : name_dict[k] = <<>>

\* the names of a mapping that are not empty differ from one another
DistinctNames(d) ==
    \A j, k \in DOMAIN d : (j # k /\ d[j] # <<>>) => d[j] # d[k]

\* C11: with scheme CUSTOM every position that was empty gets a name that is
\* neither blacklisted nor held by another position, pre-loaded or assigned
\* earlier in the batch: after the batch no assigned name is in the blacklist
\* and no two positions hold the same name.
C11_NoDuplicateCustomName ==
    [][(npc = "handle_instance_naming" /\ name_scheme = CUSTOM) =>
          /\ DOMAIN name_dict' = DOMAIN name_dict
          /\ \A k \in DOMAIN name_dict :
                IF name_dict[k] = <<>>
                THEN name_dict'[k] # <<>> /\ name_dict'[k] \notin Blacklist
                ELSE name_dict'[k] = name_dict[k]
          /\ \A j, k \in DOMAIN name_dict' :
                j # k => name_dict'[j] # name_dict'[k]
      ]_vars

\* Moonraker "a" pre-loaded at position 0, the operator named position 1
C11_Witness ==
    /\ npc = "done"
    /\ name_scheme = CUSTOM
    /\ moonraker_instances = << <<"a">> >>
    /\ klipper_instances = <<>>
    /\ name_dict = (0 :> <<"a">> @@ 1 :> <<"b">>)

\* C16: with scheme INDEX and a mapping whose non-empty names differ from one
\* another, handle_instance_naming leaves every position with a non-empty
\* name, keeps the names that were there, and no two positions hold the same
\* name.
C16_IndexNamesUnique ==
    [][(npc = "handle_instance_naming" /\ name_scheme = INDEX
            /\ DistinctNames(name_dict)) =>
          /\ \A k \in DOMAIN name_dict' : name_dict'[k] # <<>>
          /\ \A k \in DOMAIN name_dict :
                name_dict[k] # <<>> => name_dict'[k] = name_dict[k]
          /\ \A j, k \in DOMAIN name_dict' :
                j # k => name_dict'[j] # name_dict'[k]
      ]_vars

-----------------------------------------------------------------------------
(* Properties of the conversion (SpecConv) *)

IsPrefix(a, b) == Len(a) <= Len(b) /\ \A i \in 1..Len(a) : a[i] = b[i]

\* the calls of a conversion in the order of the contract; the rename step
\* stands as "rename" whether it renamed or skipped
ContractOrder ==
    <<"stop", "disable", "delete", "new_instance", "rename",
      "create", "enable", "start", "mr_conv">>
RenameStep(l) ==
    [i \in 1..Len(l) |-> IF l[i] = "skip_rename" THEN "rename" ELSE l[i]]

\* C5: the conversion stops, disables and deletes the old instance, in that
\* order and with the old data directory path captured before the delete;
\* only then builds the new instance and renames; only then creates,
\* enables and starts the new service.
C5_CallOrder ==
    /\ IsPrefix(RenameStep(oplog), ContractOrder)
    /\ (cpc = "kl_delete" \/ Len(oplog) >= 3) => old_data_dir = DataDir(<<>>)

\* a conversion that ran through all its calls
C5_Witness ==
    /\ cpc = "mr_conv"
    /\ oplog = <<"stop", "disable", "delete", "new_instance", "rename",
                 "create", "enable", "start">>

\* the rename step of C6, with the severity of the note as a parameter
RenameStepContract(severity) ==
    cpc = "kl_rename" =>
        /\ (fs[DataDir(new_name)] = "none" /\ cpc' # "raised") =>
              /\ fs'[DataDir(new_name)] = fs[DataDir(<<>>)]
              /\ fs'[DataDir(<<>>)] = "none"
              /\ oplog' = Append(oplog, "rename")
        /\ IsDir(fs[DataDir(new_name)]) =>
              /\ fs' = fs
              /\ oplog' = Append(oplog, "skip_rename")
              /\ logged'[Len(logged')] = <<severity, "skipped">>
              /\ cpc' = "kl_create"
ContinuesAfterRenameStep ==
    cpc \in {"mr_conv", "returned"} =>
        SubSeq(oplog, 6, 8) = <<"create", "enable", "start">>

\* C6 as claimed: no destination, the old data directory is renamed onto it;
\* the destination a directory already, no rename, a warning is logged, both
\* directories stay as they are, and create, enable, start follow.
C6_SkipWithWarning ==
    [][RenameStepContract("warn") /\ ContinuesAfterRenameStep']_vars

\* C6 as the code has it: the note about the skipped rename is logged with
\* Logger.print_info, an informational message.
C6_SkipWithInfo ==
    [][RenameStepContract("info") /\ ContinuesAfterRenameStep']_vars

\* the destination was a directory, the rename was skipped, the service runs
C6_Witness ==
    /\ cpc = "mr_conv"
    /\ oplog = <<"stop", "disable", "delete", "new_instance", "skip_rename",
                 "create", "enable", "start">>
    /\ fs[DataDir(<<>>)] = "old_data"
    /\ fs[DataDir(new_name)] = "other_data"
    /\ new_name \in units.running

\* C7: a failed stop, disable, delete or rename leaves the conversion as an
\* exception: no later call of the Klipper conversion has run (no create,
\* enable or start after a failed rename), Moonraker's conversion was not
\* called, nothing was retried, and the removed old instance stays removed.
CallsBefore(op) ==
    CASE op = "stop" -> <<>>
      [] op = "disable" -> <<"stop">>
      [] op = "delete" -> <<"stop", "disable">>
      [] op = "rename" -> <<"stop", "disable", "delete", "new_instance">>

C7_AbortNoRollback ==
    failed_at \in {"stop", "disable", "delete", "rename"} =>
        /\ cpc = "raised"
        /\ oplog = CallsBefore(failed_at)
        /\ mr_suffix = <<>>
        /\ units.installed = (IF failed_at = "rename" THEN {} ELSE {<<>>})
        /\ new_name \notin units.installed \cup units.enabled \cup units.running

\* the rename failed after the old instance was deleted
C7_Witness ==
    /\ cpc = "raised"
    /\ failed_at = "rename"
    /\ fs[DataDir(new_name)] = "file"
    /\ units.installed = {}

\* C8: handle_to_multi_instance_conversion converts Klipper first, then
\* Moonraker, with the same new_name: when it returns, the instance of each
\* family carries the suffix new_name.
C8_SameSuffix ==
    cpc = "returned" =>
        /\ current_instance = new_name
        /\ units.installed = {new_name}
        /\ mr_suffix = new_name
        /\ oplog[Len(oplog)] = "mr_conv"
        /\ SubSeq(oplog, 6, 8) = <<"create", "enable", "start">>

C8_Witness ==
    /\ cpc = "returned"
    /\ new_name = <<"a">>
    /\ mr_suffix = <<"a">>
    /\ units.installed = {<<"a">>}

-----------------------------------------------------------------------------
(* SpecSys: the setup helpers of sys_utils.py, one call per step *)

\* what a call leaves behind: how it ended, the exception that left it, the
\* value it returned and the Logger lines it printed
Returned(value, log) ==
    [outcome |-> "returned", exc |-> "none", value |-> value, log |-> log]
Raised(exc, log) ==
    [outcome |-> "raised", exc |-> exc, value |-> "none", log |-> log]

\* exit statuses and captured stderr of an external command
ExitCodes == {0, 1, 2}
StderrTexts == {"", "text"}

\* failures of venv.create and shutil.rmtree
VenvOutcomes == {"ok", "OSError", "CalledProcessError"}
RmtreeOutcomes == {"ok", "OSError"}

\* check_python_version: vi is sys.version_info
check_python_version(vi, major, minor) ==
    IF ~(vi.major >= major /\ vi.minor >= minor)
    THEN Returned(FALSE, << <<"error", "versioncheck_failed">>,
                           <<"error", "newer_required">> >>)
    ELSE Returned(TRUE, <<>>)

\* create_python_venv when the target does not exist
CreateFresh(create) ==
    IF create = "ok"
    THEN Returned("none", << <<"status", "setup_venv">>,
                            <<"ok", "venv_created">> >>)
    ELSE Raised(create, << <<"status", "setup_venv">>,
                           <<"error", "venv_setup">> >>)

\* create_python_venv: exists is target.exists(), confirm the answer to
\* "Re-create?", rmtree and create the outcomes of shutil.rmtree, venv.create
create_python_venv(exists, confirm, rmtree, create) ==
    IF ~exists THEN CreateFresh(create)
    ELSE IF confirm
    THEN IF rmtree = "OSError"
         THEN Raised("OSError", << <<"status", "setup_venv">>,
                                   <<"error", "venv_remove">> >>)
         ELSE LET inner == CreateFresh(create)
                  log == << <<"status", "setup_venv">> >> \o inner.log
              IN  IF inner.outcome = "raised" /\ inner.exc = "OSError"
                  THEN Raised("OSError",
                              Append(log, <<"error", "venv_remove">>))
                  ELSE [inner EXCEPT !.log = log]
    ELSE Returned("none", << <<"status", "setup_venv">>,
                            <<"info", "venv_skipped">> >>)

\* update_python_pip: rc and err are result.returncode and result.stderr
update_python_pip(pip_exists, rc, err) ==
    IF ~pip_exists
    THEN Raised("FileNotFoundError", << <<"status", "update_pip">>,
                                        <<"error", "pip_not_found">> >>)
    ELSE IF rc # 0 \/ err # ""
    THEN Returned("none", << <<"status", "update_pip">>,
                            <<"error", "stderr">>,
                            <<"error", "update_pip_failed">> >>)
    ELSE Returned("none", << <<"status", "update_pip">>,
                            <<"ok", "update_pip">> >>)

\* install_python_requirements: rc1, err1 of the pip upgrade, rc2, err2 of
\* "pip install -r"
install_python_requirements(pip_exists, rc1, err1, rc2, err2) ==
    LET up == update_python_pip(pip_exists, rc1, err1)
        log == Append(up.log, <<"status", "install_requirements">>)
    IN  IF up.outcome = "raised" THEN up
        ELSE IF rc2 # 0 \/ err2 # ""
        THEN Returned("none", log \o << <<"error", "stderr">>,
                                        <<"error", "install_requirements_failed">> >>)
        ELSE Returned("none", Append(log, <<"ok", "install_requirements">>))

\* update_system_package_lists: stale is update_age > update_interval
update_system_package_lists(stale, silent, rc, err) ==
    LET log == IF silent THEN <<>> ELSE << <<"status", "update_lists">> >>
    IN  IF ~stale THEN Returned("none", <<>>)
        ELSE IF rc # 0 \/ err # ""
        THEN Returned("none", log \o << <<"error", "stderr">>,
                                        <<"error", "update_lists_failed">> >>)
        ELSE Returned("none", Append(log, <<"ok", "update_lists">>))

\* install_system_packages: run(..., check=True)
install_system_packages(rc, err) ==
    IF rc # 0
    THEN Raised("CalledProcessError", << <<"error", "install_packages">> >>)
    ELSE Returned("none", << <<"ok", "install_packages">> >>)

InitSys ==
    /\ sys_call = [fn |-> "none"]
    /\ sys_result = [outcome |-> "none", exc |-> "none", value |-> "none",
                     log |-> <<>>]
    /\ PureIdle
    /\ NameIdle
    /\ ConvIdle
    /\ SpinIdle
    /\ RmIdle

CallCheckPythonVersion ==
    /\ \E M, m, major, minor \in 0..MaxVersion :
        /\ sys_call' = [fn |-> "check_python_version",
                        vi |-> [major |-> M, minor |-> m],
                        major |-> major, minor |-> minor]
        /\ sys_result' =
              check_python_version([major |-> M, minor |-> m], major, minor)
    /\ UNCHANGED <<pureVars, nameVars, convVars, spinVars, rmVars>>

CallCreatePythonVenv ==
    /\ \E exists, confirm \in BOOLEAN,
          rmtree \in RmtreeOutcomes, create \in VenvOutcomes :
        /\ sys_call' = [fn |-> "create_python_venv", exists |-> exists,
                        confirm |-> confirm, rmtree |-> rmtree,
                        create |-> create]
        /\ sys_result' = create_python_venv(exists, confirm, rmtree, create)
    /\ UNCHANGED <<pureVars, nameVars, convVars, spinVars, rmVars>>

CallUpdatePythonPip ==
    /\ \E pip_exists \in BOOLEAN, rc \in ExitCodes, err \in StderrTexts :
        /\ sys_call' = [fn |-> "update_python_pip", pip_exists |-> pip_exists,
                        rc |-> rc, err |-> err]
        /\ sys_result' = update_python_pip(pip_exists, rc, err)
    /\ UNCHANGED <<pureVars, nameVars, convVars, spinVars, rmVars>>

CallInstallPythonRequirements ==
    /\ \E pip_exists \in BOOLEAN, rc1, rc2 \in ExitCodes,
          err1, err2 \in StderrTexts :
        /\ sys_call' = [fn |-> "install_python_requirements",
                        pip_exists |-> pip_exists, rc1 |-> rc1, err1 |-> err1,
                        rc |-> rc2, err |-> err2]
        /\ sys_result' =
              install_python_requirements(pip_exists, rc1, err1, rc2, err2)
    /\ UNCHANGED <<pureVars, nameVars, convVars, spinVars, rmVars>>

CallUpdateSystemPackageLists ==
    /\ \E stale, silent \in BOOLEAN, rc \in ExitCodes, err \in StderrTexts :
        /\ sys_call' = [fn |-> "update_system_package_lists", stale |-> stale,
                        silent |-> silent, rc |-> rc, err |-> err]
        /\ sys_result' = update_system_package_lists(stale, silent, rc, err)
    /\ UNCHANGED <<pureVars, nameVars, convVars, spinVars, rmVars>>

CallInstallSystemPackages ==
    /\ \E rc \in ExitCodes, err \in StderrTexts :
        /\ sys_call' = [fn |-> "install_system_packages", rc |-> rc,
                        err |-> err]
        /\ sys_result' = install_system_packages(rc, err)
    /\ UNCHANGED <<pureVars, nameVars, convVars, spinVars, rmVars>>

NextSys ==
    \/ CallCheckPythonVersion
    \/ CallCreatePythonVenv
    \/ CallUpdatePythonPip
    \/ CallInstallPythonRequirements
    \/ CallUpdateSystemPackageLists
    \/ CallInstallSystemPackages

SpecSys == InitSys /\ [][NextSys]_vars

-----------------------------------------------------------------------------
(* Properties of the setup helpers (SpecSys) *)

Logs(severity, what) ==
    \E i \in 1..Len(sys_result.log) : sys_result.log[i] = <<severity, what>>
LogsError ==
    \E i \in 1..Len(sys_result.log) : sys_result.log[i][1] = "error"

\* the underlying operation of a setup-critical call failed
VenvFailed ==
    /\ sys_call.fn = "create_python_venv"
    /\ IF sys_call.exists
       THEN sys_call.confirm
              /\ (sys_call.rmtree # "ok" \/ sys_call.create # "ok")
       ELSE sys_call.create # "ok"
PipUpgradeFailed ==
    /\ sys_call.fn = "update_python_pip"
    /\ (~sys_call.pip_exists \/ sys_call.rc # 0)
RequirementsFailed ==
    /\ sys_call.fn = "install_python_requirements"
    /\ (~sys_call.pip_exists \/ sys_call.rc # 0)

\* C12: when virtualenv creation fails, or the pip upgrade or the
\* requirements installation exits non-zero, create_python_venv,
\* update_python_pip and install_python_requirements log the error and
\* raise; none of them returns normally.
C12_FailuresAreRaised ==
    (VenvFailed \/ PipUpgradeFailed \/ RequirementsFailed) =>
        (sys_result.outcome = "raised" /\ LogsError)

\* the command of a call that ran one, and the name of its report
RanCommand ==
    \/ sys_call.fn \in {"update_python_pip", "install_python_requirements"}
          /\ sys_call.pip_exists
    \/ sys_call.fn = "update_system_package_lists" /\ sys_call.stale
    \/ sys_call.fn = "install_system_packages"
ReportName ==
    CASE sys_call.fn = "update_python_pip" -> "update_pip"
      [] sys_call.fn = "install_python_requirements" -> "install_requirements"
      [] sys_call.fn = "update_system_package_lists" -> "update_lists"
      [] sys_call.fn = "install_system_packages" -> "install_packages"
ReportedSuccessful == Logs("ok", ReportName)

\* C13: the pip upgrade, the requirements installation, the package-list
\* refresh and the package installation are reported successful exactly when
\* the command exits with status 0, whatever it wrote to stderr.
C13_ExitStatusDecides ==
    RanCommand => (ReportedSuccessful <=> sys_call.rc = 0)

\* C15: check_python_version(major, minor) returns True exactly when the
\* interpreter version (M, m) is at least (major, minor) in version order:
\* M > major, or M = major and m >= minor.
C15_VersionOrder ==
    sys_call.fn = "check_python_version" =>
        (sys_result.value <=>
            \/ sys_call.vi.major > sys_call.major
            \/ (sys_call.vi.major = sys_call.major
                  /\ sys_call.vi.minor >= sys_call.minor))

-----------------------------------------------------------------------------
(* SpecSpinner: a Spinner, its controlling thread and its animation threads *)

\* len(animation)
NumFrames == 4

\* threading.Thread(target=self._animate), not started
NewThread == [st |-> "new", pc |-> "while", i |-> 0]

\* Thread.is_alive()
IsAlive(t) == threads[t].st = "running"

\* sys.stdout.write(text); sys.stdout.flush()
Written(text) == <<text, 1 - console[2]>>

\* Spinner.__init__
InitSpinner ==
    /\ stop_event = FALSE
    /\ threads = <<NewThread>>
    /\ cur = 1
    /\ ctl = "idle"
    /\ last_call = "none"
    /\ console = << <<"none", 0>>, 0 >>
    /\ PureIdle
    /\ NameIdle
    /\ ConvIdle
    /\ SysIdle
    /\ RmIdle

notSpin == <<pureVars, nameVars, convVars, sysVars, rmVars>>

\* start(): self._stop_event.clear()
StartClear ==
    /\ ctl = "idle"
    /\ Len(threads) <= MaxThreads
    /\ stop_event' = FALSE
    /\ ctl' = "start_check"
    /\ UNCHANGED <<threads, cur, last_call, console, notSpin>>

\* start(): a new thread unless the current one is alive; then start returns
StartSpawn ==
    /\ ctl = "start_check"
    /\ IF ~IsAlive(cur)
       THEN /\ threads' = Append(threads, [NewThread EXCEPT !.st = "running"])
            /\ cur' = Len(threads) + 1
       ELSE UNCHANGED <<threads, cur>>
    /\ ctl' = "idle"
    /\ last_call' = "start"
    /\ UNCHANGED <<stop_event, console, notSpin>>

\* stop(): self._stop_event.set()
StopSet ==
    /\ ctl = "idle"
    /\ stop_event' = TRUE
    /\ ctl' = "joining"
    /\ UNCHANGED <<threads, cur, last_call, console, notSpin>>

\* a stop() that does not wait for the thread
StopNoJoin ==
    /\ ctl = "joining"
    /\ ctl' = "idle"
    /\ last_call' = "stop"
    /\ UNCHANGED <<stop_event, threads, cur, console, notSpin>>

\* stop(): self._thread.join(); joining a thread that was never started
\* raises RuntimeError, joining a running thread waits until it has ended
StopJoin ==
    /\ ctl = "joining"
    /\ threads[cur].st # "running"
    /\ ctl' = "idle"
    /\ last_call' = IF threads[cur].st = "new" THEN "stop_raised" ELSE "stop"
    /\ UNCHANGED <<stop_event, threads, cur, console, notSpin>>

\* _animate: the while condition
AnimWhile(t) ==
    /\ IsAlive(t)
    /\ threads[t].pc = "while"
    /\ threads' = [threads EXCEPT ![t].pc =
                       IF stop_event THEN "cleanup" ELSE "write",
                                  ![t].i = 0]
    /\ UNCHANGED <<stop_event, cur, ctl, last_call, console, notSpin>>

\* _animate: write one frame
AnimWrite(t) ==
    /\ IsAlive(t)
    /\ threads[t].pc = "write"
    /\ console' = Written(<<"frame", threads[t].i>>)
    /\ threads' = [threads EXCEPT ![t].pc = "sleep"]
    /\ UNCHANGED <<stop_event, cur, ctl, last_call, notSpin>>

\* _animate: sleep, then break if the event is set, else the next frame
AnimSleep(t) ==
    /\ IsAlive(t)
    /\ threads[t].pc = "sleep"
    /\ threads' =
          IF stop_event \/ threads[t].i = NumFrames - 1
          THEN [threads EXCEPT ![t].pc = "while"]
          ELSE [threads EXCEPT ![t].pc = "write", ![t].i = @ + 1]
    /\ UNCHANGED <<stop_event, cur, ctl, last_call, console, notSpin>>

\* _animate: blank the line, and the thread ends
AnimCleanup(t) ==
    /\ IsAlive(t)
    /\ threads[t].pc = "cleanup"
    /\ console' = Written(<<"blank", 0>>)
    /\ threads' = [threads EXCEPT ![t].st = "dead"]
    /\ UNCHANGED <<stop_event, cur, ctl, last_call, notSpin>>

Animate ==
    \E t \in 1..Len(threads) :
        AnimWhile(t) \/ AnimWrite(t) \/ AnimSleep(t) \/ AnimCleanup(t)

NextSpinner ==
    \/ StartClear
    \/ StartSpawn
    \/ StopSet
    \/ StopJoin
    \/ Animate

\* a started thread keeps being scheduled
SpecSpinner == InitSpinner /\ [][NextSpinner]_vars /\ WF_vars(Animate)

-----------------------------------------------------------------------------
(* Properties of the Spinner (SpecSpinner) *)

AliveThreads == {t \in 1..Len(threads) : IsAlive(t)}
StopReturned == ctl = "idle" /\ last_call = "stop"

\* C14: at most one animation thread is alive; once stop() has returned the
\* thread has ended and nothing is written until the next start(); and a
\* stop() issued while the animation runs leads to the thread ending.
C14_OneThreadStoppedByStop ==
    /\ [](Cardinality(AliveThreads) <= 1)
    /\ [](StopReturned => AliveThreads = {})
    /\ [][StopReturned => console' = console]_vars
    /\ ((ctl = "joining" /\ AliveThreads # {}) ~> (AliveThreads = {}))

\* started, stopped, started again and stopped: two threads, both ended
C14_Witness ==
    /\ StopReturned
    /\ Len(threads) = 3
    /\ threads[2].st = "dead"
    /\ threads[3].st = "dead"
    /\ console[1] = <<"blank", 0>>

\* C19: stop() on a Spinner that was never started, or a second stop(),
\* returns without error and leaves no animation thread running.
C19_StopAlwaysSafe ==
    /\ last_call # "stop_raised"
    /\ (ctl = "idle" /\ last_call \in {"stop", "stop_raised"})
          => AliveThreads = {}

-----------------------------------------------------------------------------
(* SpecRemove: run_moonraker_removal, one call per step *)

\* the options of the selection prompt: "1" .. "n", then "a" and "b"
Options(instances) ==
    [i \in 1..Len(instances) |-> IntToStr(i)] \o << <<"a">>, <<"b">> >>

\* get_selection_input: the operator's answer is one of the options
get_selection_input(options) == {options[i] : i \in 1..Len(options)}

\* select_instances_to_remove; [none |-> TRUE] stands for None
select_instances_to_remove(instances, selection) ==
    LET options == Options(instances)
        instance_map == [o \in {options[i] : i \in 1..Len(instances)} |->
                            instances[CHOOSE i \in 1..Len(instances) :
                                          options[i] = o]]
    IN  IF selection = <<"b">> THEN [none |-> TRUE, list |-> <<>>]
        ELSE IF selection = <<"a">> THEN [none |-> FALSE, list |-> instances]
        ELSE [none |-> FALSE, list |-> <<instance_map[selection]>>]

\* unit_file_exists("moonraker", suffix="service") over the unit files left
unit_file_exists(unit_files) == unit_files # {}

\* InstanceManager.remove for each instance of the list: the unit files left
remove_instances(unit_files, list) ==
    unit_files \ {list[i] : i \in 1..Len(list)}

\* remove_polkit_rules: needs MOONRAKER_DIR, then the script must succeed
remove_polkit_rules(dir_exists, script_ok) == dir_exists /\ script_ok

\* shared resources stay in every case
KeepSharedNever(delete_remaining, unit_files) == FALSE

\* the test that keeps the shared resources
KeepShared(delete_remaining, unit_files) ==
    delete_remaining /\ unit_file_exists(unit_files)

\* run_moonraker_removal; c holds the arguments, the installed instances, the
\* operator's selection and the outcome of each removal routine
run_moonraker_removal(c) ==
    LET installed == {c.instances[i] : i \in 1..Len(c.instances)}
        asks == c.remove_service /\ c.instances # <<>>
        sel == IF asks
               THEN select_instances_to_remove(c.instances, c.selection)
               ELSE [none |-> FALSE, list |-> <<>>]
        left == remove_instances(installed, sel.list)
        text1 == IF asks THEN <<"instances_removed">> ELSE <<>>
        delete_remaining == c.remove_polkit \/ c.remove_dir \/ c.remove_env
        keep == KeepShared(delete_remaining, left)
        removed ==
            IF keep THEN {}
            ELSE (IF c.remove_polkit
                        /\ remove_polkit_rules(c.dir_exists, c.script_ok)
                  THEN {"polkit"} ELSE {})
                 \cup (IF c.remove_dir /\ c.dir_ok THEN {"dir"} ELSE {})
                 \cup (IF c.remove_env /\ c.env_ok THEN {"env"} ELSE {})
        text2 ==
            IF keep THEN text1 \o <<"still_installed", "polkit_kept",
                                    "dir_kept", "env_kept">>
            ELSE text1
                 \o (IF "polkit" \in removed THEN <<"polkit_removed">> ELSE <<>>)
                 \o (IF "dir" \in removed THEN <<"dir_removed">> ELSE <<>>)
                 \o (IF "env" \in removed THEN <<"env_removed">> ELSE <<>>)
    IN  IF asks /\ sel.none
        THEN [outcome |-> "raised", exc |-> "TypeError", unit_files |-> installed,
              removed |-> {}, text |-> <<>>, color |-> "none"]
        ELSE [outcome |-> "returned", exc |-> "none", unit_files |-> left,
              removed |-> removed,
              text |-> IF text2 # <<>> THEN <<"actions_performed">> \o text2
                       ELSE <<"nothing_to_remove">>,
              color |-> IF text2 # <<>> THEN "GREEN" ELSE "YELLOW"]

\* the calls: arguments, installed instances "1" .. "n", the operator's
\* selection and the outcome of each removal routine
RemovalCalls ==
    UNION {
        [fn : {"run_moonraker_removal"},
         instances : {[i \in 1..n |-> IntToStr(i)]},
         remove_service : BOOLEAN, remove_dir : BOOLEAN,
         remove_env : BOOLEAN, remove_polkit : BOOLEAN,
         selection : get_selection_input(Options([i \in 1..n |-> IntToStr(i)])),
         dir_exists : BOOLEAN, script_ok : BOOLEAN,
         dir_ok : BOOLEAN, env_ok : BOOLEAN] : n \in 0..MaxMoonraker}

NotRun ==
    [outcome |-> "none", exc |-> "none", unit_files |-> {}, removed |-> {},
     text |-> <<>>, color |-> "none"]

InitRemove ==
    /\ rm_call \in RemovalCalls
    /\ rm_result = NotRun
    /\ PureIdle
    /\ NameIdle
    /\ ConvIdle
    /\ SysIdle
    /\ SpinIdle

RunMoonrakerRemoval ==
    /\ rm_result = NotRun
    /\ rm_result' = run_moonraker_removal(rm_call)
    /\ UNCHANGED <<rm_call, pureVars, nameVars, convVars, sysVars, spinVars>>

NextRemove == RunMoonrakerRemoval

SpecRemove == InitRemove /\ [][NextRemove]_vars

-----------------------------------------------------------------------------
(* Properties of the removal (SpecRemove) *)

Called == rm_result # NotRun
AsksForSelection == Called /\ rm_call.remove_service /\ rm_call.instances # <<>>

\* C17: the PolicyKit rules, the repository and the Python environment are
\* removed only if no Moonraker unit file is left after the instances were
\* removed; removing one selected instance out of several leaves all three.
C17_SharedKeptWhileInstalled ==
    Called =>
        /\ rm_result.removed # {} => rm_result.unit_files = {}
        /\ (AsksForSelection /\ Len(rm_call.instances) >= 2
              /\ rm_call.selection \notin {<<"a">>, <<"b">>})
             => /\ rm_result.outcome = "returned"
                /\ rm_result.removed = {}
                /\ Cardinality(rm_result.unit_files)
                      = Len(rm_call.instances) - 1

\* the second of three instances removed, everything asked for, all kept
C17_Witness ==
    /\ Called
    /\ Len(rm_call.instances) = 3
    /\ rm_call.selection = <<"2">>
    /\ rm_call.remove_service /\ rm_call.remove_dir
    /\ rm_call.remove_env /\ rm_call.remove_polkit
    /\ rm_call.dir_exists /\ rm_call.script_ok
    /\ rm_call.dir_ok /\ rm_call.env_ok
    /\ rm_result.unit_files = {rm_call.instances[1], rm_call.instances[3]}
    /\ rm_result.removed = {}

\* C18: when the operator answers the selection prompt with "b", no
\* instance is removed and run_moonraker_removal returns a completion
\* message.
C18_GoBackCompletes ==
    (AsksForSelection /\ rm_call.selection = <<"b">>) =>
        /\ rm_result.outcome = "returned"
        /\ Len(rm_result.text) >= 1
        /\ Cardinality(rm_result.unit_files) = Len(rm_call.instances)

====
